---- MODULE Spec2Model ----
(***************************************************************************)
(* Model of the Testomatio MCP server (src/index.js): the credential slot  *)
(* jwtToken, authenticate(), and the request executors makeRequest /       *)
(* makePostRequest / makePutRequest with their retry on 401.  Every await  *)
(* of the code that separates two accesses to shared state is a separate   *)
(* step, so that concurrently running tool invocations interleave as the   *)
(* event loop lets them.  The remote API is an unconstrained environment:  *)
(* it issues a fresh token per successful login and may answer any call    *)
(* with any status, whatever credential the call carries.                  *)
(***************************************************************************)
EXTENDS Integers, Sequences, FiniteSets, TLC

\* ------------------------------------------------------------------ bounds
MaxTok == 3            \* tokens the login endpoint issues in one behaviour

\* ------------------------------------------------------------ program data
Null == 0              \* this.jwtToken = null
Tasks == {1, 2}        \* logically concurrent invocations on the event loop
Kinds == {"AUTH", "GET", "POST", "PUT"}
ResourceStatuses == {200, 401, 404}

VARIABLES
  jwtToken,    \* the credential slot (Null or a token)
  pc,          \* per task: where its async call is suspended
  op,          \* per task: which method was called
  jwt,         \* per task: the local `jwt` of the executor
  resp,        \* per task: the response the pending fetch resolves to
  result,      \* per task: value returned / error thrown by the call
  nLogin,      \* per task: login calls issued by the current call
  nCalls,      \* per task: resource calls issued by the current call
               \* (both stop counting at MaxTok + 2)
  rejected,    \* per task: the credential its last 401 was answered to
  startSlot,   \* per task: the slot when the call was made
  lastAuth,    \* what authenticate() last returned, Null once invalidated
  nextTok,     \* remote API: next token to issue
  concurrent,  \* callers may overlap their calls
  accepts,     \* remote API: Null while it answers as it likes, else the
               \* first of the tokens it honours since it works again
  proc,        \* the process: main(), parseArgs(), run(), the dispatch handler
  fn           \* a call of one of the pure helpers: arguments and result

vars == <<jwtToken, pc, op, jwt, resp, result, nLogin, nCalls, rejected,
          startSlot, lastAuth, nextTok, concurrent, accepts, proc, fn>>

\* ------------------------------------------------------------- the fetch API
StatusText(s) ==
  CASE s = 200 -> "OK"
    [] s = 401 -> "Unauthorized"
    [] s = 404 -> "Not Found"
    [] OTHER   -> ""

ResponseOk(s) == s >= 200 /\ s <= 299

NoResp == [kind |-> "none", status |-> 0, statusText |-> "", body |-> "",
           jwt |-> Null, data |-> 0]

\* what the resource at the path of task t holds
PathOf(t) == t
DataOf(p) == 10 + p

\* ---------------------------------------------------- values and exceptions
NoResult == [type |-> "none", msg |-> "", status |-> 0, statusText |-> "",
             body |-> "", value |-> 0]

Returned(v) == [NoResult EXCEPT !.type = "value", !.value = v]

\* throw new Error(`Authentication failed: HTTP ${status}: ${statusText}. Response: ${errorText}`)
AuthHttpErrorNoBody(r) ==
  [NoResult EXCEPT !.type = "AuthenticationError",
                   !.msg = "Authentication failed: HTTP",
                   !.status = r.status, !.statusText = r.statusText]

AuthHttpError(r) ==
  [NoResult EXCEPT !.type = "AuthenticationError",
                   !.msg = "Authentication failed: HTTP",
                   !.status = r.status, !.statusText = r.statusText,
                   !.body = r.body]

\* throw new Error('Authentication failed: No JWT token received in response')
AuthNoJwtError ==
  [NoResult EXCEPT !.type = "AuthenticationError",
                   !.msg = "Authentication failed: No JWT token received in response"]

\* throw new Error(`HTTP ${status}: ${statusText}`) and, for POST only,
\* `; ${await response.text()}`
ApiError(kind, r) ==
  [NoResult EXCEPT !.type = "ApiRequestError", !.msg = "HTTP",
                   !.status = r.status, !.statusText = r.statusText,
                   !.body = IF kind = "POST" THEN r.body ELSE ""]

\* --------------------------------------------------- decisions of the code
\* if (this.jwtToken) return this.jwtToken
HasCachedNever(slot) == FALSE

HasCached(slot) == slot # Null

\* if (!data.jwt) throw
MissingJwtNever(data) == FALSE

MissingJwt(data) == data.jwt = Null

\* if (response.status === 401 && this.jwtToken)
ShouldRetryAnyError(r, slot) == ~ResponseOk(r.status) /\ slot # Null

ShouldRetry(r, slot) == r.status = 401 /\ slot # Null

\* this.jwtToken = null
InvalidatedKeep(slot) == slot

Invalidated(slot) == Null

\* return await response.json()
ParsedJsonOfFirst(r) == DataOf(PathOf(1))

ParsedJson(r) == r.data

\* ------------------------------------------------------------------- Init
\* the server object right after its constructor
Constructed ==
  /\ jwtToken = Null
  /\ pc = [t \in Tasks |-> "idle"]
  /\ op = [t \in Tasks |-> "none"]
  /\ jwt = [t \in Tasks |-> Null]
  /\ resp = [t \in Tasks |-> NoResp]
  /\ result = [t \in Tasks |-> NoResult]
  /\ nLogin = [t \in Tasks |-> 0]
  /\ nCalls = [t \in Tasks |-> 0]
  /\ rejected = [t \in Tasks |-> Null]
  /\ startSlot = [t \in Tasks |-> Null]
  /\ lastAuth = Null
  /\ nextTok = 1
  /\ accepts = Null

Init ==
  /\ Constructed
  /\ concurrent \in BOOLEAN
  /\ proc = [pc |-> "off"]
  /\ fn = [f |-> "off"]

InitSeq == Init /\ concurrent = FALSE

\* ------------------------------------------------------------ authenticate
\* The synchronous prefix of authenticate(), entered with the slot holding
\* `slot`: either the cached credential is returned or the login call is
\* issued and the task suspends on it.  Shared by the first call and by the
\* recursive call of the executors.
EnterAuthenticate(t, kind, slot) ==
  IF HasCached(slot)
  THEN /\ jwt' = [jwt EXCEPT ![t] = slot]
       /\ pc' = [pc EXCEPT ![t] = IF kind = "AUTH" THEN "done" ELSE "authed"]
       /\ result' = [result EXCEPT ![t] = IF kind = "AUTH" THEN Returned(slot)
                                                        ELSE NoResult]
       /\ nLogin' = nLogin
  ELSE /\ jwt' = [jwt EXCEPT ![t] = Null]
       /\ pc' = [pc EXCEPT ![t] = "loginSent"]
       /\ result' = [result EXCEPT ![t] = NoResult]
       /\ nLogin' = [nLogin EXCEPT ![t] = IF @ > MaxTok + 1 THEN @ ELSE @ + 1]

\* A caller invokes authenticate() or one of the executors.
Call(t, kind) ==
  /\ pc[t] = "idle"
  /\ concurrent \/ \A u \in Tasks \ {t} : pc[u] = "idle"
  /\ op' = [op EXCEPT ![t] = kind]
  /\ startSlot' = [startSlot EXCEPT ![t] = jwtToken]
  /\ EnterAuthenticate(t, kind, jwtToken)
  /\ lastAuth' = IF pc'[t] = "done" THEN result'[t].value ELSE lastAuth
  /\ UNCHANGED <<jwtToken, resp, nCalls, rejected, nextTok, concurrent, accepts, proc, fn>>

\* The login endpoint answers: a fresh token, a body without jwt, or a
\* non-success status.
ServerLogin(t) ==
  /\ pc[t] = "loginSent"
  /\ \/ /\ nextTok <= MaxTok
        /\ resp' = [resp EXCEPT ![t] = [NoResp EXCEPT !.kind = "login",
                       !.status = 200, !.statusText = StatusText(200),
                       !.jwt = nextTok]]
        /\ nextTok' = nextTok + 1
     \/ /\ resp' = [resp EXCEPT ![t] = [NoResp EXCEPT !.kind = "login",
                       !.status = 200, !.statusText = StatusText(200)]]
        /\ UNCHANGED nextTok
     \/ /\ resp' = [resp EXCEPT ![t] = [NoResp EXCEPT !.kind = "login",
                       !.status = 401, !.statusText = StatusText(401),
                       !.body = "Invalid credentials"]]
        /\ UNCHANGED nextTok
  /\ pc' = [pc EXCEPT ![t] = "loginReplied"]
  /\ UNCHANGED <<jwtToken, op, jwt, result, nLogin, nCalls, rejected,
                 startSlot, lastAuth, concurrent, accepts, proc, fn>>

\* authenticate() resumes on the login response.
LoginReturn(t) ==
  /\ pc[t] = "loginReplied"
  /\ IF ~ResponseOk(resp[t].status)
     THEN /\ result' = [result EXCEPT ![t] = AuthHttpError(resp[t])]
          /\ pc' = [pc EXCEPT ![t] = "done"]
          /\ UNCHANGED <<jwtToken, jwt, lastAuth>>
     ELSE IF MissingJwt(resp[t])
     THEN /\ result' = [result EXCEPT ![t] = AuthNoJwtError]
          /\ pc' = [pc EXCEPT ![t] = "done"]
          /\ UNCHANGED <<jwtToken, jwt, lastAuth>>
     ELSE /\ jwtToken' = resp[t].jwt
          /\ jwt' = [jwt EXCEPT ![t] = resp[t].jwt]
          /\ IF op[t] = "AUTH"
             THEN /\ result' = [result EXCEPT ![t] = Returned(resp[t].jwt)]
                  /\ pc' = [pc EXCEPT ![t] = "done"]
                  /\ lastAuth' = resp[t].jwt
             ELSE /\ pc' = [pc EXCEPT ![t] = "authed"]
                  /\ UNCHANGED <<result, lastAuth>>
  /\ UNCHANGED <<op, resp, nLogin, nCalls, rejected, startSlot,
                 nextTok, concurrent, accepts, proc, fn>>

\* ---------------------------------------------------------------- executors
\* The executor resumes after `await this.authenticate()` and issues the
\* resource call with the credential it was given.
SendRequest(t) ==
  /\ pc[t] = "authed"
  /\ nCalls' = [nCalls EXCEPT ![t] = IF @ > MaxTok + 1 THEN @ ELSE @ + 1]
  /\ pc' = [pc EXCEPT ![t] = "reqSent"]
  /\ UNCHANGED <<jwtToken, op, jwt, resp, result, nLogin, rejected,
                 startSlot, lastAuth, nextTok, concurrent, accepts, proc, fn>>

\* The remote API answers the resource call.
ServerHandle(t) ==
  /\ pc[t] = "reqSent"
  /\ \E s \in ResourceStatuses :
       /\ resp' = [resp EXCEPT ![t] =
            [NoResp EXCEPT !.kind = "resource", !.status = s,
                           !.statusText = StatusText(s),
                           !.body = IF s = 200 THEN "" ELSE "denied",
                           !.data = IF s = 200 THEN DataOf(PathOf(t)) ELSE 0]]
  /\ pc' = [pc EXCEPT ![t] = "reqReplied"]
  /\ UNCHANGED <<jwtToken, op, jwt, result, nLogin, nCalls, rejected,
                 startSlot, lastAuth, nextTok, concurrent, accepts, proc, fn>>

\* The executor resumes on the resource response.
ResponseReturn(t) ==
  /\ pc[t] = "reqReplied"
  /\ rejected' = [rejected EXCEPT ![t] = IF resp[t].status = 401 THEN jwt[t]
                                                                  ELSE @]
  /\ IF ResponseOk(resp[t].status)
     THEN /\ result' = [result EXCEPT ![t] = Returned(ParsedJson(resp[t]))]
          /\ pc' = [pc EXCEPT ![t] = "done"]
          /\ UNCHANGED <<jwtToken, jwt, nLogin, lastAuth>>
     ELSE IF ShouldRetry(resp[t], jwtToken)
     THEN /\ jwtToken' = Invalidated(jwtToken)
          /\ lastAuth' = Null
          /\ EnterAuthenticate(t, op[t], Invalidated(jwtToken))
     ELSE /\ result' = [result EXCEPT ![t] = ApiError(op[t], resp[t])]
          /\ pc' = [pc EXCEPT ![t] = "done"]
          /\ UNCHANGED <<jwtToken, jwt, nLogin, lastAuth>>
  /\ UNCHANGED <<op, resp, nCalls, startSlot, nextTok, concurrent, accepts, proc, fn>>

\* The caller's await resumes with the value or the exception.
Settle(t) ==
  /\ pc[t] = "done"
  /\ pc' = [pc EXCEPT ![t] = "idle"]
  /\ op' = [op EXCEPT ![t] = "none"]
  /\ jwt' = [jwt EXCEPT ![t] = Null]
  /\ resp' = [resp EXCEPT ![t] = NoResp]
  /\ result' = [result EXCEPT ![t] = NoResult]
  /\ nLogin' = [nLogin EXCEPT ![t] = 0]
  /\ nCalls' = [nCalls EXCEPT ![t] = 0]
  /\ rejected' = [rejected EXCEPT ![t] = Null]
  /\ startSlot' = [startSlot EXCEPT ![t] = Null]
  /\ UNCHANGED <<jwtToken, lastAuth, nextTok, concurrent, accepts, proc, fn>>

Next ==
  \/ \E t \in Tasks, kind \in Kinds : Call(t, kind)
  \/ \E t \in Tasks : ServerLogin(t)
  \/ \E t \in Tasks : LoginReturn(t)
  \/ \E t \in Tasks : SendRequest(t)
  \/ \E t \in Tasks : ServerHandle(t)
  \/ \E t \in Tasks : ResponseReturn(t)
  \/ \E t \in Tasks : Settle(t)

Spec == Init /\ [][Next]_vars

SpecSeq == InitSeq /\ [][Next]_vars

\* The login endpoint, having issued MaxTok tokens, answers with the last of
\* them again.
ServerLoginAgain(t) ==
  /\ pc[t] = "loginSent"
  /\ nextTok > MaxTok
  /\ resp' = [resp EXCEPT ![t] = [NoResp EXCEPT !.kind = "login",
                 !.status = 200, !.statusText = StatusText(200),
                 !.jwt = MaxTok]]
  /\ pc' = [pc EXCEPT ![t] = "loginReplied"]
  /\ UNCHANGED <<jwtToken, op, jwt, result, nLogin, nCalls, rejected,
                 startSlot, lastAuth, nextTok, concurrent, accepts, proc, fn>>

NextLive ==
  \/ Next
  \/ \E t \in Tasks : ServerLoginAgain(t)

\* Every fetch is answered and every continuation whose promise has settled
\* runs; callers do not overlap.
SpecLive ==
  /\ InitSeq
  /\ [][NextLive]_vars
  /\ \A t \in Tasks :
       /\ WF_vars(ServerLogin(t) \/ ServerLoginAgain(t))
       /\ WF_vars(ServerHandle(t))
       /\ WF_vars(LoginReturn(t))
       /\ WF_vars(SendRequest(t))
       /\ WF_vars(ResponseReturn(t))

TypeOK ==
  /\ jwtToken \in 0..MaxTok
  /\ \A t \in Tasks : nCalls[t] <= MaxTok + 1

\* ------------------------------------------------- the remote API recovers
\* Between two calls the remote API starts to work again: from now on it
\* accepts every login and honours every token it issues.
Recover ==
  /\ accepts = Null
  /\ nextTok <= MaxTok
  /\ \A t \in Tasks : pc[t] = "idle"
  /\ accepts' = nextTok
  /\ UNCHANGED <<jwtToken, pc, op, jwt, resp, result, nLogin, nCalls,
                 rejected, startSlot, lastAuth, nextTok, concurrent, proc, fn>>

\* The working login endpoint answers with a fresh token.
AcceptLogin(t) ==
  /\ accepts # Null
  /\ pc[t] = "loginSent"
  /\ nextTok <= MaxTok
  /\ resp' = [resp EXCEPT ![t] = [NoResp EXCEPT !.kind = "login",
                 !.status = 200, !.statusText = StatusText(200),
                 !.jwt = nextTok]]
  /\ nextTok' = nextTok + 1
  /\ pc' = [pc EXCEPT ![t] = "loginReplied"]
  /\ UNCHANGED <<jwtToken, op, jwt, result, nLogin, nCalls, rejected,
                 startSlot, lastAuth, concurrent, accepts, proc, fn>>

\* The working API answers a resource call: 200 for a token it honours, 200
\* or 401 for a token from before.
AcceptRequest(t) ==
  /\ accepts # Null
  /\ pc[t] = "reqSent"
  /\ \E s \in {200, 401} :
       /\ s = 401 => jwt[t] < accepts
       /\ resp' = [resp EXCEPT ![t] =
            [NoResp EXCEPT !.kind = "resource", !.status = s,
                           !.statusText = StatusText(s),
                           !.body = IF s = 200 THEN "" ELSE "denied",
                           !.data = IF s = 200 THEN DataOf(PathOf(t)) ELSE 0]]
  /\ pc' = [pc EXCEPT ![t] = "reqReplied"]
  /\ UNCHANGED <<jwtToken, op, jwt, result, nLogin, nCalls, rejected,
                 startSlot, lastAuth, nextTok, concurrent, accepts, proc, fn>>

NextRecover ==
  \/ \E t \in Tasks, kind \in Kinds : Call(t, kind)
  \/ \E t \in Tasks : accepts = Null /\ ServerLogin(t)
  \/ \E t \in Tasks : accepts = Null /\ ServerHandle(t)
  \/ Recover
  \/ \E t \in Tasks : AcceptLogin(t)
  \/ \E t \in Tasks : AcceptRequest(t)
  \/ \E t \in Tasks : LoginReturn(t)
  \/ \E t \in Tasks : SendRequest(t)
  \/ \E t \in Tasks : ResponseReturn(t)
  \/ \E t \in Tasks : Settle(t)

SpecRecover == InitSeq /\ [][NextRecover]_vars

\* ------------------------------------------------------------------ claims
Executors == {"GET", "POST", "PUT"}

\* network calls one logical operation has issued so far
NetworkCalls(t) == nCalls[t] + nLogin[t]

\* login calls of the current call that a 401 caused
RetryLogins(t) == IF startSlot[t] = Null /\ nLogin[t] > 0 THEN nLogin[t] - 1
                                                          ELSE nLogin[t]

C2_RetryBoundedToOne ==
  \A t \in Tasks : nCalls[t] <= 2 /\ RetryLogins(t) <= 1

\* C3: authenticate() called while a credential is cached returns it and
\* issues no network call; when callers do not overlap, the slot keeps the
\* value authenticate() last returned until it is invalidated, so a second
\* authenticate() returns the identical value without a login call.
C3_CachedAuthenticate ==
  /\ \A t \in Tasks :
       (op[t] = "AUTH" /\ startSlot[t] # Null) =>
          /\ pc[t] = "done"
          /\ NetworkCalls(t) = 0
          /\ result[t] = Returned(startSlot[t])
          /\ jwtToken = startSlot[t]
  /\ lastAuth # Null => jwtToken = lastAuth

C3_Witness ==
  \E t \in Tasks :
    /\ op[t] = "AUTH" /\ startSlot[t] # Null /\ pc[t] = "done"
    /\ lastAuth = startSlot[t]

\* C4: under every interleaving, once a request has had a credential
\* rejected with 401 the slot never holds that credential again, and the
\* credential the request holds for or has sent on its retry is a non-empty
\* credential different from the rejected one.
C4_RetryNeverStale ==
  \A t \in Tasks :
    rejected[t] # Null =>
      /\ jwtToken # rejected[t]
      /\ pc[t] \in {"authed", "reqSent", "reqReplied"} =>
           jwt[t] \notin {Null, rejected[t]}

C4_Witness ==
  \E t \in Tasks : \E u \in Tasks \ {t} :
    /\ concurrent
    /\ rejected[t] # Null /\ rejected[u] = rejected[t]
    /\ pc[t] = "reqSent" /\ nCalls[t] = 2
    /\ pc[u] \in {"loginSent", "loginReplied", "authed", "reqSent"}

\* The request of task t failed only, if at all, on the first 401: no login
\* was refused and no freshly issued credential was refused.
OnlyOldRefused(t) ==
  \/ result[t].type = "value"
  \/ /\ result[t].type = "ApiRequestError"
     /\ result[t].status = 401
     /\ nCalls[t] = 1

\* C5: two requests that both sent the same cached credential and both saw
\* it rejected with 401 both complete with their response data, neither
\* ends in an error, when the server refuses no login and no fresh credential.
C5_BothRecover ==
  \A t \in Tasks : \A u \in Tasks \ {t} :
    ( /\ op[t] \in Executors /\ op[u] \in Executors
      /\ startSlot[t] # Null /\ startSlot[u] = startSlot[t]
      /\ rejected[t] = startSlot[t] /\ rejected[u] = startSlot[u]
      /\ pc[t] = "done" /\ pc[u] = "done"
      /\ OnlyOldRefused(t) /\ OnlyOldRefused(u) ) =>
        /\ result[t] = Returned(DataOf(PathOf(t)))
        /\ result[u] = Returned(DataOf(PathOf(u)))

C7_NoRetryAfterOwnLogin ==
  \A t \in Tasks :
    (op[t] \in Executors /\ startSlot[t] = Null /\ rejected[t] # Null) =>
       nCalls[t] <= 1 /\ nLogin[t] <= 1

\* C8: the step that takes a non-success response other than 401 ends the
\* call with an error carrying the status code and status text, issues no
\* login call and no resource call, and leaves the slot unchanged.
C8_OtherStatusNotRetried ==
  [][ \A t \in Tasks :
        ( /\ pc[t] = "reqReplied"
          /\ pc'[t] # "reqReplied"
          /\ ~ResponseOk(resp[t].status)
          /\ resp[t].status # 401 ) =>
            /\ pc'[t] = "done"
            /\ result'[t].type = "ApiRequestError"
            /\ result'[t].status = resp[t].status
            /\ result'[t].statusText = resp[t].statusText
            /\ nLogin'[t] = nLogin[t]
            /\ nCalls'[t] = nCalls[t]
            /\ jwtToken' = jwtToken ]_vars

C8_Witness ==
  \E t \in Tasks :
    /\ pc[t] = "done" /\ result[t].type = "ApiRequestError"
    /\ result[t].status = 404 /\ jwtToken # Null /\ nCalls[t] = 1

\* C9: a login answered with a success status and no jwt ends the call with
\* the AuthenticationError for a missing token; the step that takes it leaves
\* the slot as it was, which is empty whenever callers do not overlap; and
\* every authenticate() called with the slot empty issues a login call.
C9_MissingJwt ==
  /\ [](\A t \in Tasks :
          /\ ( /\ pc[t] = "done" /\ resp[t].kind = "login"
               /\ ResponseOk(resp[t].status) /\ resp[t].jwt = Null ) =>
                 /\ result[t] = AuthNoJwtError
                 /\ ~concurrent => jwtToken = Null
          /\ (op[t] = "AUTH" /\ startSlot[t] = Null) => nLogin[t] = 1)
  /\ [][ \A t \in Tasks :
           ( /\ pc[t] = "loginReplied" /\ pc'[t] # "loginReplied"
             /\ ResponseOk(resp[t].status) /\ resp[t].jwt = Null ) =>
               /\ pc'[t] = "done"
               /\ jwtToken' = jwtToken
               /\ nLogin' = nLogin ]_vars

C9_Witness ==
  \E t \in Tasks :
    /\ op[t] = "AUTH" /\ pc[t] = "done" /\ resp[t].kind = "login"
    /\ ResponseOk(resp[t].status) /\ resp[t].jwt = Null
    /\ result[t].type = "AuthenticationError"
    /\ jwtToken = Null

\* C10: a login answered with a non-success status ends the call with an
\* AuthenticationError carrying the status, the status text and the response
\* body; the step that takes it issues no further login call and leaves the
\* slot as it was, which is empty whenever callers do not overlap.
C10_LoginHttpFailure ==
  /\ [](\A t \in Tasks :
          ( /\ pc[t] = "done" /\ resp[t].kind = "login"
            /\ ~ResponseOk(resp[t].status) ) =>
              /\ result[t].type = "AuthenticationError"
              /\ result[t].status = resp[t].status
              /\ result[t].statusText = resp[t].statusText
              /\ result[t].body = resp[t].body
              /\ nLogin[t] = nCalls[t] + (IF startSlot[t] = Null THEN 1 ELSE 0)
              /\ op[t] = "AUTH" => nLogin[t] = 1
              /\ ~concurrent => jwtToken = Null)
  /\ [][ \A t \in Tasks :
           ( /\ pc[t] = "loginReplied" /\ pc'[t] # "loginReplied"
             /\ ~ResponseOk(resp[t].status) ) =>
               /\ pc'[t] = "done"
               /\ jwtToken' = jwtToken
               /\ nLogin' = nLogin ]_vars

C10_Witness ==
  \E t \in Tasks :
    /\ op[t] = "AUTH" /\ pc[t] = "done" /\ resp[t].kind = "login"
    /\ resp[t].status = 401 /\ result[t].body = "Invalid credentials"
    /\ jwtToken = Null

\* C23: the credential slot is empty or holds one token a login response has
\* issued; it is filled only by authenticate() resuming on a successful login
\* response that carries that token, and emptied only by an executor resuming
\* on a 401 response, never by a failed login.
C23_SlotDiscipline ==
  /\ [](jwtToken = Null \/ jwtToken \in 1..(nextTok - 1))
  /\ [][ jwtToken' # jwtToken =>
           \E t \in Tasks :
             IF jwtToken' # Null
             THEN /\ pc[t] = "loginReplied"
                  /\ resp[t].status = 200 /\ resp[t].jwt = jwtToken'
                  /\ pc'[t] \in {"authed", "done"}
                  /\ result'[t].type # "AuthenticationError"
             ELSE /\ pc[t] = "reqReplied"
                  /\ op[t] \in Executors /\ resp[t].status = 401 ]_vars

C23_Witness ==
  /\ jwtToken = Null
  /\ \E t \in Tasks : pc[t] = "loginSent" /\ rejected[t] # Null
  /\ \E t \in Tasks : pc[t] = "done" /\ result[t].type = "AuthenticationError"

\* C24: a resource request in flight carries a non-empty credential, the one
\* authenticate() gave its executor; the executor sends it only on resuming
\* from authenticate(), and when authenticate() fails the call ends with that
\* error without having sent a request for it.
C24_AuthenticatedRequests ==
  /\ [](\A t \in Tasks :
          /\ pc[t] \in {"authed", "reqSent", "reqReplied"} =>
               jwt[t] # Null /\ jwt[t] \in 1..(nextTok - 1)
          /\ (nCalls[t] > 0) => (nLogin[t] > 0 \/ startSlot[t] # Null))
  /\ [][ \A t \in Tasks :
           /\ nCalls'[t] > nCalls[t] =>
                pc[t] = "authed" /\ jwt'[t] = jwt[t] /\ jwt[t] # Null
           /\ ( /\ pc[t] = "loginReplied" /\ pc'[t] # pc[t]
                /\ ~ResponseOk(resp[t].status) \/ resp[t].jwt = Null ) =>
                ( /\ pc'[t] = "done"
                  /\ result'[t].type = "AuthenticationError"
                  /\ nCalls'[t] = nCalls[t] ) ]_vars

C24_Witness ==
  \E t \in Tasks :
    /\ pc[t] = "done" /\ op[t] = "GET"
    /\ result[t].type = "AuthenticationError"
    /\ nCalls[t] = 1 /\ nLogin[t] = 2

\* C25: an executor's error for a non-success response that is not retried
\* carries the status code and the status text, and for POST and for PUT the
\* body text of the response as well.
C25_ErrorCarriesBody ==
  \A t \in Tasks :
    (pc[t] = "done" /\ result[t].type = "ApiRequestError") =>
      /\ result[t].status = resp[t].status
      /\ result[t].statusText = resp[t].statusText
      /\ op[t] \in {"POST", "PUT"} => result[t].body = resp[t].body

\* C29: when every HTTP call is answered, every call of an executor comes to
\* an end, returning or throwing, whatever the server answers.
C29_ExecutorTerminates ==
  \A t \in Tasks : (op[t] \in Executors) ~> (pc[t] = "done")

\* C30: when callers do not overlap, whatever failed logins, rejected requests
\* and request errors came before, every call made once the remote API works
\* again succeeds: it logs in first if the slot is empty, it logs in anew if
\* the slot's token is rejected, it issues at most 2 resource calls and 1
\* login, and it returns the token or the resource's JSON.
C30_NoStickyFailure ==
  accepts # Null =>
    \A t \in Tasks :
      /\ nLogin[t] <= 1 /\ nCalls[t] <= 2
      /\ result[t].type \in {"none", "value"}
      /\ (pc[t] = "authed" /\ startSlot[t] = Null) => nLogin[t] = 1
      /\ (nCalls[t] = 2) => rejected[t] = startSlot[t] /\ jwt[t] >= accepts
      /\ pc[t] = "done" =>
           /\ result[t].type = "value"
           /\ op[t] \in Executors => result[t].value = DataOf(PathOf(t))
           /\ op[t] = "AUTH" => result[t].value = jwtToken

C30_Witness ==
  /\ accepts # Null
  /\ \E t \in Tasks :
       /\ pc[t] = "done" /\ op[t] = "GET"
       /\ result[t].type = "value"
       /\ nCalls[t] = 2 /\ nLogin[t] = 1
       /\ startSlot[t] # Null /\ startSlot[t] < accepts

\* ================================================================ strings
\* A JavaScript string is the sequence of its characters; a value that may
\* be undefined is a record saying whether it is defined.
Whitespace == {" ", "\n"}

Undefined == [def |-> FALSE, str |-> << >>]
Str(s) == [def |-> TRUE, str |-> s]

RECURSIVE TrimStart(_)
TrimStart(s) ==
  IF s # << >> /\ Head(s) \in Whitespace THEN TrimStart(Tail(s)) ELSE s

RECURSIVE TrimEnd(_)
TrimEnd(s) ==
  IF s # << >> /\ s[Len(s)] \in Whitespace
  THEN TrimEnd(SubSeq(s, 1, Len(s) - 1)) ELSE s

\* String.prototype.trim
Trim(s) == TrimEnd(TrimStart(s))

\* typeof value === 'string' ? value.trim() : value
normalizeString(v) == IF v.def THEN Str(Trim(v.str)) ELSE v

\* trimmed.replace(/\s+/g, '') of a string, the value itself otherwise
normalizeBaseUrlTrimOnly(v) == IF v.def THEN Str(Trim(v.str)) ELSE v

normalizeBaseUrl(v) ==
  IF v.def THEN Str(SelectSeq(Trim(v.str), LAMBDA c : c \notin Whitespace))
  ELSE v

\* a || b
Falsy(v) == ~v.def \/ v.str = << >>
OrElse(a, b) == IF Falsy(a) THEN b ELSE a

\* ============================================================ the process
\* main(): parseArgs(), new TestomatioMCPServer(config), run(), and then the
\* CallToolRequestSchema handler serving tool calls over the transport.
KnownTools == {"get_tests", "search_tests", "search_suites", "get_root_suites",
               "get_suite", "get_runs", "get_run", "get_testruns", "get_plans",
               "get_plan", "create_test", "update_test", "create_suite",
               "create_folder", "create_label"}

\* what --token / --project and the environment may hold
ArgValues == {Undefined, Str(<< >>), Str(<<" ">>), Str(<<"x">>)}

\* if (!token) / if (!projectId)
RequiredMissingNever(v) == FALSE

RequiredMissing(v) == Falsy(v)

\* throw new Error(`Unknown tool: ${name}`)
UnknownToolError(name) ==
  [NoResult EXCEPT !.type = "Error", !.msg = "Unknown tool: ", !.body = name]

\* the login endpoint refusing the credentials
LoginRefused ==
  [NoResp EXCEPT !.kind = "login", !.status = 401,
                 !.statusText = StatusText(401), !.body = "Invalid credentials"]
\* the outcomes of a tool operation: its text, what authenticate() and the
\* executors throw, an error on its arguments
ToolOutcomes ==
  {Returned(1), AuthHttpError(LoginRefused), AuthNoJwtError,
   [NoResult EXCEPT !.type = "Error", !.msg = "invalid arguments"]}
    \cup {ApiError(k, [NoResp EXCEPT !.kind = "resource", !.status = st,
                         !.statusText = StatusText(st), !.body = "denied"]) :
            k \in Executors, st \in {401, 404}}

\* error.message
ErrorMessage(e) == <<e.msg, ToString(e.status), e.statusText, e.body>>

\* { content: [{ type: 'text', text: ... }] } returned by an operation
ToolResponse(name) ==
  [fault |-> FALSE, content |-> << [type |-> "text", text |-> <<name>>] >>]

\* the catch block of the handler
ErrorResponse(e) ==
  [fault |-> FALSE,
   content |-> << [type |-> "text",
                   text |-> <<"Error: ">> \o ErrorMessage(e)] >>]

\* try { switch (name) ... } catch (error) { ... }
HandleToolCallNoCatch(name, outcome) ==
  IF outcome.type = "value" THEN ToolResponse(name) ELSE [fault |-> TRUE, content |-> << >>]

HandleToolCall(name, outcome) ==
  IF outcome.type = "value" THEN ToolResponse(name) ELSE ErrorResponse(outcome)

\* run(): try { await this.authenticate() } catch { process.exit(1) }
StartupAuthFatalNever(res) == FALSE

StartupAuthFatal(res) == res.type # "value"

InitMain ==
  /\ Constructed
  /\ concurrent = FALSE
  /\ fn = [f |-> "off"]
  /\ \E ot \in ArgValues, et \in ArgValues, op_ \in ArgValues,
        ep \in ArgValues :
       proc = [pc |-> "parseArgs", optToken |-> ot, envToken |-> et,
               optProject |-> op_, envProject |-> ep, token |-> Undefined,
               projectId |-> Undefined, constructed |-> FALSE,
               connected |-> FALSE, netCalls |-> 0, exitCode |-> -1,
               stderr |-> "", auth |-> NoResult, name |-> "",
               outcome |-> NoResult, served |-> FALSE,
               response |-> [fault |-> FALSE, content |-> << >>]]

ServerVars == <<jwtToken, pc, op, jwt, resp, result, nLogin, nCalls, rejected,
                startSlot, lastAuth, nextTok, concurrent, accepts>>

\* process.exit(code) after console.error(message)
Exit(code, message) ==
  proc' = [proc EXCEPT !.pc = "exited", !.exitCode = code, !.stderr = message]

\* parseArgs()
ParseArgs ==
  /\ proc.pc = "parseArgs"
  /\ LET token == normalizeString(OrElse(proc.optToken, proc.envToken))
         projectId == normalizeString(OrElse(proc.optProject, proc.envProject))
     IN IF RequiredMissing(token) THEN Exit(1, "Error: API token is required")
        ELSE IF RequiredMissing(projectId) THEN Exit(1, "Error: Project ID is required")
        ELSE proc' = [proc EXCEPT !.pc = "construct", !.token = token,
                                  !.projectId = projectId]
  /\ UNCHANGED <<ServerVars, fn>>

\* new TestomatioMCPServer(config)
Construct ==
  /\ proc.pc = "construct"
  /\ proc' = [proc EXCEPT !.pc = "run", !.constructed = TRUE,
                          !.token = normalizeString(@),
                          !.projectId = normalizeString(@)]
  /\ UNCHANGED <<ServerVars, fn>>

\* run() calls authenticate(), which issues the login call
RunAuthenticate ==
  /\ proc.pc = "run"
  /\ proc' = [proc EXCEPT !.pc = "loginSent", !.netCalls = @ + 1]
  /\ UNCHANGED <<ServerVars, fn>>

\* the login endpoint answers the login call of run()
StartupLoginAnswer ==
  /\ proc.pc = "loginSent"
  /\ \E r \in {[NoResp EXCEPT !.kind = "login", !.status = 200,
                  !.statusText = StatusText(200), !.jwt = nextTok],
               [NoResp EXCEPT !.kind = "login", !.status = 200,
                  !.statusText = StatusText(200)],
               LoginRefused} :
       /\ proc' = [proc EXCEPT !.pc = "loginReplied",
            !.auth = IF ~ResponseOk(r.status) THEN AuthHttpError(r)
                     ELSE IF MissingJwt(r) THEN AuthNoJwtError
                     ELSE Returned(r.jwt)]
       /\ jwtToken' = IF ResponseOk(r.status) /\ ~MissingJwt(r) THEN r.jwt
                                                               ELSE jwtToken
       /\ nextTok' = IF r.jwt # Null THEN nextTok + 1 ELSE nextTok
  /\ UNCHANGED <<pc, op, jwt, resp, result, nLogin, nCalls, rejected,
                 startSlot, lastAuth, concurrent, accepts, fn>>

\* run() resumes: exit on failure, connect the transport otherwise
RunResume ==
  /\ proc.pc = "loginReplied"
  /\ IF StartupAuthFatal(proc.auth) THEN Exit(1, "Authentication failed:")
     ELSE proc' = [proc EXCEPT !.pc = "serving", !.connected = TRUE]
  /\ UNCHANGED <<ServerVars, fn>>

\* a tool call arrives over the transport and its operation runs
ReceiveToolCall ==
  /\ proc.pc = "serving"
  /\ proc.connected
  /\ \E name \in KnownTools \cup {"no_such_tool"} :
       \E outcome \in IF name \in KnownTools THEN ToolOutcomes
                                            ELSE {UnknownToolError(name)} :
         proc' = [proc EXCEPT !.pc = "handling", !.name = name,
                              !.outcome = outcome,
                              !.response = [fault |-> FALSE, content |-> << >>]]
  /\ UNCHANGED <<ServerVars, fn>>

\* the handler returns
RespondToolCall ==
  /\ proc.pc = "handling"
  /\ proc' = [proc EXCEPT !.pc = "serving", !.served = TRUE,
                !.response = HandleToolCall(proc.name, proc.outcome)]
  /\ UNCHANGED <<ServerVars, fn>>

NextMain ==
  \/ ParseArgs
  \/ Construct
  \/ RunAuthenticate
  \/ StartupLoginAnswer
  \/ RunResume
  \/ ReceiveToolCall
  \/ RespondToolCall

SpecMain == InitMain /\ [][NextMain]_vars

\* C11: every tool call the handler has answered, whatever its name and
\* whatever its operation threw, was answered with a normal response of one
\* text block, and when the operation failed the text is "Error: " followed
\* by the message of the error; no failure leaves the handler as a fault.
C11_ErrorsReturnedInBand ==
  (proc.pc = "serving" /\ proc.served) =>
     /\ ~proc.response.fault
     /\ Len(proc.response.content) = 1
     /\ proc.response.content[1].type = "text"
     /\ proc.outcome.type # "value" =>
          proc.response.content[1].text
            = <<"Error: ">> \o ErrorMessage(proc.outcome)

C11_Witness ==
  /\ proc.pc = "serving" /\ proc.served
  /\ proc.name \notin KnownTools
  /\ proc.response.content[1].text[1] = "Error: "

\* C12: run() authenticates before it connects: when the startup
\* authentication has failed the process exits with code 1, has not connected
\* the transport and serves no tool call, and stays so; the transport is
\* connected only with the credential of a successful authentication stored.
C12_StartupAuthFatal ==
  /\ [](/\ proc.connected =>
             /\ proc.auth.type = "value" /\ jwtToken = proc.auth.value
             /\ proc.exitCode = -1
        /\ ( /\ proc.pc \notin {"parseArgs", "construct", "run", "loginSent",
                                "loginReplied"}
             /\ proc.auth.type \notin {"none", "value"} ) =>
             /\ proc.pc = "exited" /\ proc.exitCode = 1
             /\ ~proc.connected /\ ~proc.served)
  /\ [][proc.pc = "exited" => proc' = proc]_vars

C12_Witness ==
  /\ proc.pc = "exited" /\ proc.auth.type = "AuthenticationError"
  /\ proc.netCalls = 1 /\ proc.exitCode = 1

\* a non-blank token in the source parseArgs() reads
GivenToken(o, e) ==
  \/ o.def /\ Trim(o.str) # << >>
  \/ ~o.def /\ e.def /\ Trim(e.str) # << >>

\* C13: started with neither --token nor TESTOMATIO_API_TOKEN the process
\* exits with code 1 reporting that the API token is required; started with
\* a token and with neither --project nor TESTOMATIO_PROJECT_ID it exits
\* with code 1 reporting that the project ID is required; in both cases no
\* server has been constructed and no network call made.
C13_RequiredArguments ==
  proc.pc # "parseArgs" =>
    /\ (~proc.optToken.def /\ ~proc.envToken.def) =>
         /\ proc.pc = "exited" /\ proc.exitCode = 1
         /\ proc.stderr = "Error: API token is required"
         /\ ~proc.constructed /\ proc.netCalls = 0
    /\ ( /\ GivenToken(proc.optToken, proc.envToken)
         /\ ~proc.optProject.def /\ ~proc.envProject.def ) =>
         /\ proc.pc = "exited" /\ proc.exitCode = 1
         /\ proc.stderr = "Error: Project ID is required"
         /\ ~proc.constructed /\ proc.netCalls = 0

C13_Witness ==
  /\ proc.pc = "exited" /\ proc.stderr = "Error: Project ID is required"
  /\ GivenToken(proc.optToken, proc.envToken)
  /\ ~proc.optProject.def /\ ~proc.envProject.def

\* ====================================================== the pure helpers
\* A JavaScript value is a record of its type t and its content v: the
\* characters of a string, the items of an array, the <<key, value>> entries
\* of an object in insertion order.
JsUndefined == [t |-> "undefined", v |-> << >>]
JsNull == [t |-> "null", v |-> << >>]
JsStr(s) == [t |-> "string", v |-> s]
JsNum(n) == [t |-> "number", v |-> n]
JsBool(b) == [t |-> "boolean", v |-> b]
JsArr(items) == [t |-> "array", v |-> items]
JsObj(entries) == [t |-> "object", v |-> entries]

\* all sequences over S of length 0..n
SeqsUpTo(S, n) == UNION {[1..k -> S] : k \in 0..n}

\* text.replace(/pat/g, rep) for a literal pattern
RECURSIVE ReplaceAll(_, _, _)
ReplaceAll(s, pat, rep) ==
  IF Len(s) < Len(pat) THEN s
  ELSE IF SubSeq(s, 1, Len(pat)) = pat
       THEN rep \o ReplaceAll(SubSeq(s, Len(pat) + 1, Len(s)), pat, rep)
       ELSE <<Head(s)>> \o ReplaceAll(Tail(s), pat, rep)

\* the five entities
Entity ==
  [amp |-> <<"&", "a", "m", "p", ";">>, lt |-> <<"&", "l", "t", ";">>,
   gt |-> <<"&", "g", "t", ";">>, quot |-> <<"&", "q", "u", "o", "t", ";">>,
   apos |-> <<"&", "#", "3", "9", ";">>]

\* escapeXml(text)
escapeXmlAmpLast(text) ==
  IF text.t # "string" THEN text
  ELSE JsStr(ReplaceAll(ReplaceAll(ReplaceAll(ReplaceAll(ReplaceAll(text.v,
         <<"<">>, Entity.lt), <<">">>, Entity.gt), <<"\"">>, Entity.quot),
         <<"'">>, Entity.apos), <<"&">>, Entity.amp))

escapeXml(text) ==
  IF text.t # "string" THEN text
  ELSE JsStr(ReplaceAll(ReplaceAll(ReplaceAll(ReplaceAll(ReplaceAll(text.v,
         <<"&">>, Entity.amp), <<"<">>, Entity.lt), <<">">>, Entity.gt),
         <<"\"">>, Entity.quot), <<"'">>, Entity.apos))

\* the five entities substituted back, the ampersand last
UnescapeXml(s) ==
  ReplaceAll(ReplaceAll(ReplaceAll(ReplaceAll(ReplaceAll(s,
    Entity.apos, <<"'">>), Entity.quot, <<"\"">>), Entity.gt, <<">">>),
    Entity.lt, <<"<">>), Entity.amp, <<"&">>)

\* the longest text escapeXml is given
MaxText == 4

\* a call of a helper that has not returned yet
FnCall(f, args) == [f |-> f, args |-> args, out |-> JsUndefined, done |-> FALSE]

\* the call returns out
FnReturn(out) == fn' = [fn EXCEPT !.out = out, !.done = TRUE]

EscapeXmlCalls ==
  {FnCall("escapeXml", <<JsStr(s)>>) :
     s \in SeqsUpTo({"&", "<", ">", "\"", "'", "l", "t", ";"}, MaxText)}
    \cup {FnCall("escapeXml", <<x>>) : x \in {JsNum(1), JsNull}}

CallEscapeXml ==
  /\ fn.f = "escapeXml" /\ ~fn.done
  /\ FnReturn(escapeXml(fn.args[1]))
  /\ UNCHANGED <<ServerVars, proc>>

\* C18: for every string, the escaped text contains no raw <, >, " or ',
\* every & of it starts one of the five entities, and substituting the five
\* entities back gives the original string.
C18_EscapeRoundTrips ==
  (fn.f = "escapeXml" /\ fn.done /\ fn.args[1].t = "string") =>
     /\ fn.out.t = "string"
     /\ \A i \in 1..Len(fn.out.v) :
          /\ fn.out.v[i] \notin {"<", ">", "\"", "'"}
          /\ fn.out.v[i] = "&" =>
               \E e \in {Entity[k] : k \in DOMAIN Entity} :
                 /\ i + Len(e) - 1 <= Len(fn.out.v)
                 /\ SubSeq(fn.out.v, i, i + Len(e) - 1) = e
     /\ UnescapeXml(fn.out.v) = fn.args[1].v

C18_Witness ==
  /\ fn.f = "escapeXml" /\ fn.done
  /\ fn.args[1] = JsStr(<<"&", "l", "t", ";">>)
  /\ fn.out = JsStr(<<"&", "a", "m", "p", ";", "l", "t", ";">>)

\* ---------------------------------------------------------- the formatter
\* Markup is a sequence of tokens: the tags and indentations the templates
\* write are whole tokens ("<tag>", "  "), interpolated text is one token per
\* character.
RECURSIVE Join(_)
Join(chars) == IF chars = << >> THEN "" ELSE Head(chars) \o Join(Tail(chars))

OpenTag(name) == "<" \o Join(name) \o ">"
CloseTag(name) == "</" \o Join(name) \o ">"

\* parts.join(sep)
RECURSIVE JoinWith(_, _)
JoinWith(parts, sep) ==
  IF parts = << >> THEN << >>
  ELSE IF Len(parts) = 1 THEN parts[1]
  ELSE parts[1] \o sep \o JoinWith(Tail(parts), sep)

\* a value used as a condition
Truthy(x) ==
  CASE x.t \in {"undefined", "null"} -> FALSE
    [] x.t = "string" -> x.v # << >>
    [] x.t = "number" -> x.v # 0
    [] x.t = "boolean" -> x.v
    [] OTHER -> TRUE

\* a || b
JsOr(a, b) == IF Truthy(a) THEN a ELSE b

\* String(value), `${value}`
RECURSIVE ToJsString(_)
ToJsString(x) ==
  CASE x.t = "string" -> x.v
    [] x.t = "number" -> <<ToString(x.v)>>
    [] x.t = "boolean" -> IF x.v THEN <<"t", "r", "u", "e">>
                                 ELSE <<"f", "a", "l", "s", "e">>
    [] x.t = "null" -> <<"n", "u", "l", "l">>
    [] x.t = "undefined" -> <<"u", "n", "d", "e", "f", "i", "n", "e", "d">>
    [] x.t = "array" ->
         JoinWith([i \in 1..Len(x.v) |->
                     IF x.v[i].t \in {"null", "undefined"} THEN << >>
                     ELSE ToJsString(x.v[i])], <<",">>)
    [] OTHER -> <<"[object Object]">>

\* obj[key]
Get(obj, key) ==
  IF obj.t = "object" /\ \E i \in 1..Len(obj.v) : obj.v[i][1] = key
  THEN obj.v[CHOOSE i \in 1..Len(obj.v) : obj.v[i][1] = key][2]
  ELSE JsUndefined

\* field.replace(a, b) with a string pattern: the first occurrence only
RECURSIVE ReplaceFirst(_, _, _)
ReplaceFirst(s, a, b) ==
  IF s = << >> THEN s
  ELSE IF Head(s) = a THEN <<b>> \o Tail(s)
  ELSE <<Head(s)>> \o ReplaceFirst(Tail(s), a, b)

\* the field, key and tag names the code spells out
Name ==
  [tags |-> <<"t", "a", "g", "s">>,
   labels |-> <<"l", "a", "b", "e", "l", "s">>,
   testsIds |-> <<"t", "e", "s", "t", "s", "-", "i", "d", "s">>,
   test |-> <<"t", "e", "s", "t">>,
   suite |-> <<"s", "u", "i", "t", "e">>,
   id |-> <<"i", "d">>,
   attributes |-> <<"a", "t", "t", "r", "i", "b", "u", "t", "e", "s">>,
   title |-> <<"t", "i", "t", "l", "e">>,
   description |-> <<"d", "e", "s", "c", "r", "i", "p", "t", "i", "o", "n">>,
   code |-> <<"c", "o", "d", "e">>,
   priority |-> <<"p", "r", "i", "o", "r", "i", "t", "y">>,
   state |-> <<"s", "t", "a", "t", "e">>,
   suiteId |-> <<"s", "u", "i", "t", "e", "-", "i", "d">>,
   suite_id |-> <<"s", "u", "i", "t", "e", "_", "i", "d">>,
   file |-> <<"f", "i", "l", "e">>,
   testCount |-> <<"t", "e", "s", "t", "-", "c", "o", "u", "n", "t">>,
   isRoot |-> <<"i", "s", "-", "r", "o", "o", "t">>,
   fileType |-> <<"f", "i", "l", "e", "-", "t", "y", "p", "e">>,
   jiraIssues |-> <<"j", "i", "r", "a", "-", "i", "s", "s", "u", "e", "s">>,
   filter |-> <<"f", "i", "l", "t", "e", "r">>]

\* value.map(x => `<tag>${this.escapeXml(x)}</tag>`).join('')
Wrapped(tag, items) ==
  JoinWith([i \in 1..Len(items) |->
              <<"<" \o tag \o ">">> \o ToJsString(escapeXml(items[i]))
                \o <<"</" \o tag \o ">">>], << >>)

\* value.map(id => `<test_id>${id}</test_id>`).join('')
WrappedRaw(tag, items) ==
  JoinWith([i \in 1..Len(items) |->
              <<"<" \o tag \o ">">> \o ToJsString(items[i])
                \o <<"</" \o tag \o ">">>], << >>)

\* the child tag of an array item, by field
ItemTag(fieldName) ==
  CASE fieldName = Name.tags -> "tag"
    [] fieldName = Name.labels -> "label"
    [] fieldName = Name.testsIds -> "test_id"
    [] OTHER -> "item"

RECURSIVE formatValue(_, _)
RECURSIVE formatNestedObject(_, _)

\* formatValue(value, fieldName)
formatValue(value, fieldName) ==
  CASE value.t \in {"null", "undefined"} -> << >>
    [] value.t = "array" ->
         IF fieldName = Name.testsIds
         THEN WrappedRaw(ItemTag(fieldName), value.v)
         ELSE Wrapped(ItemTag(fieldName), value.v)
    [] value.t = "object" -> formatNestedObject(value, fieldName)
    [] value.t = "string" -> escapeXml(value).v
    [] OTHER -> ToJsString(value)

\* formatNestedObject(obj, fieldName)
formatNestedObject(obj, fieldName) ==
  IF fieldName = Name.test /\ Truthy(Get(obj, Name.id))
  THEN <<"\n    ", "<id>">>
         \o ToJsString(JsOr(Get(obj, Name.id), JsStr(<< >>)))
         \o <<"</id>", "\n    ", "<title>">>
         \o ToJsString(escapeXml(JsOr(Get(obj, Name.title), JsStr(<< >>))))
         \o <<"</title>", "\n    ", "<priority>">>
         \o ToJsString(JsOr(Get(obj, Name.priority),
                            JsStr(<<"n", "o", "r", "m", "a", "l">>)))
         \o <<"</priority>", "\n    ", "<tags>">>
         \o Wrapped("tag", JsOr(Get(obj, Name.tags), JsArr(<< >>)).v)
         \o <<"</tags>">>
  ELSE JoinWith([i \in 1..Len(obj.v) |->
                   <<OpenTag(obj.v[i][1])>>
                     \o formatValue(obj.v[i][2], obj.v[i][1])
                     \o <<CloseTag(obj.v[i][1])>>], <<"\n    ">>)

\* the tag formatModel writes for a field
xmlFieldNameUnderscored(field) == ReplaceAll(field, <<"-">>, <<"_">>)

xmlFieldName(field) ==
  IF \E i \in 1..Len(field) : field[i] = "-" THEN field
  ELSE ReplaceFirst(field, "-", "_")

\* the attribute formatModel reads for a field
FieldValue(attributes, field) ==
  IF \E i \in 1..Len(field) : field[i] = "-" THEN Get(attributes, field)
  ELSE JsOr(Get(attributes, field),
            Get(attributes, ReplaceFirst(field, "_", "-")))

\* one line of formatModel
FieldLine(attributes, field) ==
  LET value == FieldValue(attributes, field)
      formattedValue == formatValue(value, field)
  IN IF field = Name.test /\ value.t \in {"object", "array", "null"}
     THEN <<"  ", "<test>">> \o formattedValue \o <<"\n  ", "</test>">>
     ELSE <<"  ", OpenTag(xmlFieldName(field))>> \o formattedValue
            \o <<CloseTag(xmlFieldName(field))>>

\* lines.push(`  <id>${model.id || ''}</id>`)
IdLineOmitted(model) == <<"  ">>

IdLine(model) ==
  <<"  ", "<id>">> \o ToJsString(JsOr(Get(model, Name.id), JsStr(<< >>)))
    \o <<"</id>">>

\* formatModel(model, tagName, fields)
formatModel(model, tagName, fields) ==
  LET attributes == JsOr(Get(model, Name.attributes), JsObj(<< >>))
      lines == << <<OpenTag(tagName)>>, IdLine(model) >>
               \o [i \in 1..Len(fields) |-> FieldLine(attributes, fields[i])]
               \o << <<CloseTag(tagName)>> >>
  IN JoinWith(lines, <<"\n">>)

\* ------------------------------------------------- calls of formatModel
\* the longest field list formatModel is given
MaxFields == 2

\* a resource as the API returns it: { id, attributes }
ModelFull ==
  JsObj(<< <<Name.id, JsStr(<<"7">>)>>,
           <<Name.attributes,
             JsObj(<< <<Name.title, JsStr(<<"a", "<">>)>>,
                      <<Name.suiteId, JsNum(5)>>,
                      <<Name.tags, JsArr(<<JsStr(<<"x">>), JsStr(<<"&">>)>>)>>,
                      <<Name.priority, JsStr(<<"h">>)>> >>)>> >>)

\* resources: complete; underscore keys and no id; the test of a testrun;
\* no attributes; a null and a nested object
Models ==
  {ModelFull,
   JsObj(<< <<Name.attributes,
              JsObj(<< <<Name.suite_id, JsNum(3)>>,
                       <<Name.title, JsStr(<< >>)>> >>)>> >>),
   JsObj(<< <<Name.id, JsNum(0)>>,
            <<Name.attributes,
              JsObj(<< <<Name.test, JsObj(<< <<Name.id, JsNum(1)>>,
                                             <<Name.title, JsStr(<<"t">>)>> >>)>>,
                       <<Name.tags, JsArr(<< >>)>> >>)>> >>),
   JsObj(<< <<Name.id, JsStr(<<"8">>)>> >>),
   JsObj(<< <<Name.id, JsStr(<<"9">>)>>,
            <<Name.attributes,
              JsObj(<< <<Name.test, JsNull>>,
                       <<Name.title,
                         JsObj(<< <<Name.tags, JsArr(<<JsNum(2)>>)>>,
                                  <<Name.id, JsBool(TRUE)>> >>)>> >>)>> >>)}

FormatModelCalls ==
  {FnCall("formatModel", <<m, JsStr(k), JsArr(fs)>>) :
     m \in Models, k \in {Name.test, Name.suite},
     fs \in SeqsUpTo({Name.title, Name.suiteId, Name.suite_id, Name.tags,
                      Name.test}, MaxFields)}

CallFormatModel ==
  /\ fn.f = "formatModel" /\ ~fn.done
  /\ FnReturn(JsStr(formatModel(fn.args[1], fn.args[2].v, fn.args[3].v)))
  /\ UNCHANGED <<ServerVars, proc>>

\* text.split(sep) for a one-token separator
RECURSIVE Split(_, _)
Split(s, sep) ==
  IF \A i \in 1..Len(s) : s[i] # sep THEN <<s>>
  ELSE LET i == CHOOSE j \in 1..Len(s) :
                  s[j] = sep /\ \A k \in 1..(j - 1) : s[k] # sep
       IN <<SubSeq(s, 1, i - 1)>> \o Split(SubSeq(s, i + 1, Len(s)), sep)

\* a line is one element named by one of the names
IsElement(line, names) ==
  /\ Len(line) >= 3
  /\ line[1] = "  "
  /\ \E n \in names : line[2] = OpenTag(n) /\ line[Len(line)] = CloseTag(n)

\* C16: the block formatModel returns has the line <kindName> first, the id
\* element second, then one element for each entry of fieldNames, in the
\* order of fieldNames and no other element, and the line </kindName> last.
C16_BlockShape ==
  (fn.f = "formatModel" /\ fn.done) =>
    LET lines == Split(fn.out.v, "\n")
        fields == fn.args[3].v
    IN /\ Len(lines) = Len(fields) + 3
       /\ lines[1] = <<OpenTag(fn.args[2].v)>>
       /\ IsElement(lines[2], {Name.id})
       /\ \A i \in 1..Len(fields) :
            IsElement(lines[i + 2],
                      {fields[i], ReplaceAll(fields[i], <<"-">>, <<"_">>)})
       /\ lines[Len(lines)] = <<CloseTag(fn.args[2].v)>>

C16_Witness ==
  /\ fn.f = "formatModel" /\ fn.done
  /\ fn.args = <<ModelFull, JsStr(Name.test), JsArr(<<Name.tags, Name.title>>)>>
  /\ fn.out.v = <<"<test>", "\n", "  ", "<id>", "7", "</id>", "\n",
                  "  ", "<tags>", "<tag>", "x", "</tag>", "<tag>", "&", "a",
                  "m", "p", ";", "</tag>", "</tags>", "\n",
                  "  ", "<title>", "a", "&", "l", "t", ";", "</title>", "\n",
                  "</test>">>

\* C17 as stated: the element of every requested field, hyphenated or not,
\* is tagged with the underscore form of the field name.
C17_TagUnderscored ==
  (fn.f = "formatModel" /\ fn.done) =>
    LET lines == Split(fn.out.v, "\n")
        fields == fn.args[3].v
    IN \A i \in 1..Len(fields) :
         IsElement(lines[i + 2], {ReplaceAll(fields[i], <<"-">>, <<"_">>)})

\* C17 amended: the element of every requested field is tagged with the
\* field name exactly as requested; a hyphenated name keeps its hyphens.
C17_TagAsRequested ==
  (fn.f = "formatModel" /\ fn.done) =>
    LET lines == Split(fn.out.v, "\n")
        fields == fn.args[3].v
    IN \A i \in 1..Len(fields) : IsElement(lines[i + 2], {fields[i]})

C17_Witness ==
  /\ fn.f = "formatModel" /\ fn.done
  /\ fn.args = <<ModelFull, JsStr(Name.test), JsArr(<<Name.suiteId>>)>>
  /\ fn.out.v = <<"<test>", "\n", "  ", "<id>", "7", "</id>", "\n",
                  "  ", "<suite-id>", "5", "</suite-id>", "\n", "</test>">>

\* ------------------------------------------------- calls of formatValue
\* the longest array formatValue is given, and the scalars it is made of
MaxItems == 2
Scalars == {JsStr(<<"a">>), JsStr(<<"<">>), JsNum(5), JsBool(TRUE)}

FormatValueCalls ==
  {FnCall("formatValue", <<JsArr(items), JsStr(f)>>) :
     items \in SeqsUpTo(Scalars, MaxItems),
     f \in {Name.tags, Name.labels, Name.testsIds, Name.jiraIssues}}
    \cup {FnCall("formatValue", <<x, JsStr(Name.title)>>) :
            x \in Scalars \cup {JsNull, JsUndefined}}

CallFormatValue ==
  /\ fn.f = "formatValue" /\ ~fn.done
  /\ FnReturn(JsStr(formatValue(fn.args[1], fn.args[2].v)))
  /\ UNCHANGED <<ServerVars, proc>>

\* C19: an array of scalars is rendered as one child element per item, in
\* item order, the item formatted as a scalar (a string escaped, anything
\* else as String() of it), the child tag being <tag> for tags, <label> for
\* labels, <test_id> for tests-ids and <item> for any other field.
C19_ArrayItems ==
  (fn.f = "formatValue" /\ fn.done /\ fn.args[1].t = "array") =>
    LET items == fn.args[1].v
        child == CASE fn.args[2].v = Name.tags -> "tag"
                   [] fn.args[2].v = Name.labels -> "label"
                   [] fn.args[2].v = Name.testsIds -> "test_id"
                   [] OTHER -> "item"
        ScalarText(x) == IF x.t = "string" THEN escapeXml(x).v
                                           ELSE ToJsString(x)
    IN fn.out.v = JoinWith([i \in 1..Len(items) |->
                              <<"<" \o child \o ">">> \o ScalarText(items[i])
                                \o <<"</" \o child \o ">">>], << >>)

\* ------------------------------------------------ the search operations
TestFields ==
  <<Name.title, Name.description, Name.code, Name.priority, Name.state,
    Name.suiteId, Name.tags, Name.file>>
SuiteFields ==
  <<Name.title, Name.description, Name.testCount, Name.isRoot, Name.fileType>>

NoTestsFound == "No tests found matching the criteria."
NoSuitesFound == "No suites found matching the criteria."

\* formatted || sentence
OrSentenceNever(formatted, sentence) == formatted

OrSentence(formatted, sentence) ==
  IF formatted = << >> THEN <<sentence>> ELSE formatted

\* data.data.map(x => this.formatModel(x, kind, fields)).join('\n\n')
FormattedList(data, kind, fields) ==
  JoinWith([i \in 1..Len(data) |-> formatModel(data[i], kind, fields)],
           <<"\n\n">>)

\* the text searchTests returns for the response data
searchTestsText(data, searchDescription) ==
  <<"Search results for tests">> \o searchDescription \o <<":\n\n">>
    \o OrSentence(FormattedList(data, Name.test, TestFields), NoTestsFound)

\* the text searchSuites returns for the response data
searchSuitesText(data, searchDescription) ==
  <<"Search results for suites">> \o searchDescription \o <<":\n\n">>
    \o OrSentence(FormattedList(data, Name.suite, SuiteFields), NoSuitesFound)

\* the largest collection a search answers with
MaxData == 2

\* the response data, and what buildSearchDescription gives for the filters
SearchCalls ==
  {FnCall(f, <<JsArr(data), JsStr(d)>>) :
     f \in {"searchTests", "searchSuites"},
     data \in SeqsUpTo(Models, MaxData), d \in {<< >>, <<" ", "q">>}}

CallSearchTests ==
  /\ fn.f = "searchTests" /\ ~fn.done
  /\ FnReturn(JsStr(searchTestsText(fn.args[1].v, fn.args[2].v)))
  /\ UNCHANGED <<ServerVars, proc>>

CallSearchSuites ==
  /\ fn.f = "searchSuites" /\ ~fn.done
  /\ FnReturn(JsStr(searchSuitesText(fn.args[1].v, fn.args[2].v)))
  /\ UNCHANGED <<ServerVars, proc>>

\* C20: a search whose response collection is empty returns its heading
\* followed by the no-results sentence and nothing else; a search whose
\* collection is not empty returns its heading followed by one block per
\* resource, separated by blank lines, and never the no-results sentence.
C20_EmptySearch ==
  (fn.f \in {"searchTests", "searchSuites"} /\ fn.done) =>
    LET data == fn.args[1].v
        kind == IF fn.f = "searchTests" THEN Name.test ELSE Name.suite
        sentence == IF fn.f = "searchTests" THEN NoTestsFound
                                            ELSE NoSuitesFound
        head == 2 + Len(fn.args[2].v)
        body == SubSeq(fn.out.v, head + 1, Len(fn.out.v))
        Count(tok) == Cardinality({i \in 1..Len(body) : body[i] = tok})
    IN /\ fn.out.v[head] = ":\n\n"
       /\ data = << >> => body = <<sentence>>
       /\ data # << >> =>
            /\ Count(NoTestsFound) = 0
            /\ Count(NoSuitesFound) = 0
            /\ Count(OpenTag(kind)) = Len(data)
            /\ Count(CloseTag(kind)) = Len(data)
            /\ Count("\n\n") = Len(data) - 1
            /\ body[1] = OpenTag(kind)

C20_Witness ==
  /\ fn.f = "searchSuites" /\ fn.done
  /\ fn.args[1] = JsArr(<< >>)
  /\ fn.out.v = <<"Search results for suites", ":\n\n", NoSuitesFound>>

\* ------------------------------------------------------- the constructor
\* the longest configuration string
MaxConfig == 4

\* a configuration value under test, and the values of the other two
ConfigValues ==
  {Str(s) : s \in SeqsUpTo({" ", "\n", "x", "/"}, MaxConfig)} \cup {Undefined}
OtherConfigValues == {Str(<<" ", "x", " ", "x">>), Undefined}

\* new TestomatioMCPServer({ token, projectId, baseUrl })
ConstructorCalls ==
  {FnCall("constructor", args) :
     args \in (ConfigValues \X OtherConfigValues \X OtherConfigValues)
                \cup (OtherConfigValues \X ConfigValues \X OtherConfigValues)
                \cup (OtherConfigValues \X OtherConfigValues \X ConfigValues)}

CallConstructor ==
  /\ fn.f = "constructor" /\ ~fn.done
  /\ FnReturn([token |-> normalizeString(fn.args[1]),
               projectId |-> normalizeString(fn.args[2]),
               baseUrl |-> normalizeBaseUrl(fn.args[3])])
  /\ UNCHANGED <<ServerVars, proc>>

\* C15: the constructor stores token and project identifier without their
\* leading and trailing whitespace, and the base URL without any whitespace
\* at all; a value that has no whitespace is stored as given.
C15_ConfigNormalized ==
  (fn.f = "constructor" /\ fn.done) =>
    LET IsTrimOf(out, s) ==
          /\ out # << >> =>
               (out[1] \notin Whitespace /\ out[Len(out)] \notin Whitespace)
          /\ \E i \in 1..(Len(s) + 1) :
               /\ i + Len(out) - 1 <= Len(s)
               /\ SubSeq(s, i, i + Len(out) - 1) = out
               /\ \A k \in 1..Len(s) :
                    (k < i \/ k > i + Len(out) - 1) => s[k] \in Whitespace
        IsWithoutWhitespace(out, s) ==
          /\ \A k \in 1..Len(out) : out[k] \notin Whitespace
          /\ out = SelectSeq(s, LAMBDA c : c \notin Whitespace)
    IN /\ fn.args[1].def =>
            fn.out.token.def /\ IsTrimOf(fn.out.token.str, fn.args[1].str)
       /\ fn.args[2].def =>
            /\ fn.out.projectId.def
            /\ IsTrimOf(fn.out.projectId.str, fn.args[2].str)
       /\ fn.args[3].def =>
            /\ fn.out.baseUrl.def
            /\ IsWithoutWhitespace(fn.out.baseUrl.str, fn.args[3].str)
       /\ \A i \in 1..3 :
            (fn.args[i].def /\ \A k \in 1..Len(fn.args[i].str) :
                                 fn.args[i].str[k] \notin Whitespace) =>
              <<fn.out.token, fn.out.projectId, fn.out.baseUrl>>[i]
                = fn.args[i]

C15_Witness ==
  /\ fn.f = "constructor" /\ fn.done
  /\ fn.args[3] = Str(<<"/", "\n", " ", "x">>)
  /\ fn.out.baseUrl = Str(<<"/", "x">>)
  /\ fn.args[1] = Str(<<" ", "x", " ", "x">>)
  /\ fn.out.token = Str(<<"x", " ", "x">>)

\* ----------------------------------------------------- buildSearchParams
\* params: the object under construction, a function from its keys
Put(params, k, x) ==
  [y \in DOMAIN params \cup {k} |-> IF y = k THEN x ELSE params[y]]
Param(params, k) == IF k \in DOMAIN params THEN params[k] ELSE JsUndefined

\* if (!params[k]) params[k] = []; push, or pair up with a non-array value
PushParam(params, k, x) ==
  LET cur == IF Truthy(Param(params, k)) THEN Param(params, k)
                                         ELSE JsArr(<< >>)
  IN IF cur.t = "array" THEN Put(params, k, JsArr(Append(cur.v, x)))
     ELSE Put(params, k, JsArr(<<cur, x>>))

RECURSIVE PushAll(_, _, _)
PushAll(params, k, items) ==
  IF items = << >> THEN params
  ELSE PushAll(PushParam(params, k, Head(items)), k, Tail(items))

\* Object.entries(value).forEach(([k, v]) => params[`filter[${k}]`] = v)
RECURSIVE PutFilterEntries(_, _)
PutFilterEntries(params, entries) ==
  IF entries = << >> THEN params
  ELSE PutFilterEntries(
         Put(params, "filter[" \o Join(Head(entries)[1]) \o "]",
             Head(entries)[2]),
         Tail(entries))

\* the body of the forEach over Object.entries(filters); the entries of an
\* array are its indexes and items
AddFilter(params, key, value) ==
  IF value.t \in {"undefined", "null"} THEN params
  ELSE IF key = Name.labels /\ value.t = "array"
       THEN PushAll(params, "labels[]", value.v)
  ELSE IF key = Name.filter /\ value.t \in {"object", "array"}
       THEN PutFilterEntries(params,
              IF value.t = "array"
              THEN [i \in 1..Len(value.v) |->
                      << <<ToString(i - 1)>>, value.v[i] >>]
              ELSE value.v)
  ELSE IF value.t = "array"
       THEN PushAll(params, Join(key) \o "[]", value.v)
  ELSE Put(params, Join(key), JsStr(ToJsString(value)))

RECURSIVE AddFilters(_, _)
AddFilters(params, entries) ==
  IF entries = << >> THEN params
  ELSE AddFilters(AddFilter(params, Head(entries)[1], Head(entries)[2]),
                  Tail(entries))

\* buildSearchParams(filters)
buildSearchParams(filters) ==
  AddFilters([k \in {} |-> JsUndefined], filters.v)

\* the most entries of a filters object, the longest array in it
MaxFilters == 2
MaxLabels == 2

\* the values of a filters object
FilterValues ==
  {JsUndefined, JsNull, JsStr(<<"m">>), JsNum(1), JsBool(TRUE),
   JsObj(<< >>), JsObj(<< <<Name.state, JsStr(<<"m">>)>> >>),
   JsObj(<< <<Name.state, JsStr(<<"m">>)>>, <<Name.priority, JsNull>> >>)}
    \cup {JsArr(a) : a \in SeqsUpTo({JsStr(<<"a">>), JsStr(<<"b">>)}, MaxLabels)}

\* objects of up to MaxFilters entries with distinct keys
FiltersObjects ==
  {JsObj(e) :
     e \in {x \in SeqsUpTo({Name.labels, Name.filter, Name.state, Name.tags}
                             \X FilterValues, MaxFilters) :
              \A i, j \in 1..Len(x) : x[i][1] = x[j][1] => i = j}}

CallBuildSearchParams ==
  /\ fn.f = "buildSearchParams" /\ ~fn.done
  /\ FnReturn(buildSearchParams(fn.args[1]))
  /\ UNCHANGED <<ServerVars, proc>>

\* C14: buildSearchParams omits a null or undefined filter; puts the elements
\* of an array filter k, labels included, under k[] in their order with
\* duplicates kept; puts each key of a nested filter object under
\* filter[key] with its value; and puts String(value) under k for any other
\* value.
C14_ParamMapping ==
  (fn.f = "buildSearchParams" /\ fn.done) =>
    LET params == fn.out
        ParamEntries(k) ==
          IF k \notin DOMAIN params THEN << >>
          ELSE IF params[k].t = "array" THEN params[k].v ELSE <<params[k]>>
        MappedAsStated(key, value) ==
          CASE value.t \in {"undefined", "null"} ->
                 /\ Join(key) \notin DOMAIN params
                 /\ (Join(key) \o "[]") \notin DOMAIN params
            [] value.t = "array" ->
                 /\ ParamEntries(Join(key) \o "[]") = value.v
                 /\ Join(key) \notin DOMAIN params
            [] value.t = "object" /\ key = Name.filter ->
                 /\ \A i \in 1..Len(value.v) :
                      Param(params, "filter[" \o Join(value.v[i][1]) \o "]")
                        = value.v[i][2]
                 /\ Join(key) \notin DOMAIN params
            [] OTHER -> Param(params, Join(key)) = JsStr(ToJsString(value))
    IN \A i \in 1..Len(fn.args[1].v) :
         MappedAsStated(fn.args[1].v[i][1], fn.args[1].v[i][2])

\* --------------------------------------------------------- the tag helpers
\* the characters of a tag: letters, digits, underscore and hyphen
WordChars == {"a", "A", "-", "_"}

\* the @word tokens of a text, left to right, each the longest run of tag
\* characters after an @
RECURSIVE TagMatches(_)
TagMatches(s) ==
  IF s = << >> THEN << >>
  ELSE IF Head(s) # "@" THEN TagMatches(Tail(s))
  ELSE LET rest == Tail(s)
           n == CHOOSE m \in 0..Len(rest) :
                  /\ \A k \in 1..m : rest[k] \in WordChars
                  /\ m = Len(rest) \/ rest[m + 1] \notin WordChars
       IN IF n = 0 THEN TagMatches(rest)
          ELSE <<SubSeq(rest, 1, n)>>
                 \o TagMatches(SubSeq(rest, n + 1, Len(rest)))

\* a list with every repeated element dropped, in first-seen order
RECURSIVE Unique(_)
UniqueKeepAll(s) == s

Unique(s) ==
  IF s = << >> THEN << >>
  ELSE LET r == Unique(SubSeq(s, 1, Len(s) - 1))
       IN IF \E i \in 1..Len(r) : r[i] = s[Len(s)] THEN r
          ELSE Append(r, s[Len(s)])

\* extractTagsFromTitle(title)
extractTagsFromTitle(title) == Unique(TagMatches(title))

\* the longest title
MaxTitle == 4

CallExtractTagsFromTitle ==
  /\ fn.f = "extractTagsFromTitle" /\ ~fn.done
  /\ FnReturn(extractTagsFromTitle(fn.args[1]))
  /\ UNCHANGED <<ServerVars, proc>>

\* C21: extractTagsFromTitle returns, without the @, exactly the runs of tag
\* characters (hyphen and underscore included, case kept) that follow an @ in
\* the title, each once, ordered by first appearance; a title without such a
\* run gives the empty list.
C21_TitleTags ==
  (fn.f = "extractTagsFromTitle" /\ fn.done) =>
    LET title == fn.args[1]
        tags == fn.out
        \* a tag starts at i + 1, right after an @ at i, and ends at j
        TagAt(i, j) ==
          /\ title[i] = "@" /\ i < j
          /\ \A k \in (i + 1)..j : title[k] \in WordChars
          /\ j = Len(title) \/ title[j + 1] \notin WordChars
        Starts(t) ==
          {i \in 1..Len(title) :
             \E j \in 1..Len(title) :
               TagAt(i, j) /\ SubSeq(title, i + 1, j) = t}
        First(t) == CHOOSE i \in Starts(t) : \A k \in Starts(t) : i <= k
    IN /\ \A n \in 1..Len(tags) : Starts(tags[n]) # {}
       /\ \A i, j \in 1..Len(title) :
            TagAt(i, j) =>
              \E n \in 1..Len(tags) : tags[n] = SubSeq(title, i + 1, j)
       /\ \A m, n \in 1..Len(tags) :
            m < n => (tags[m] # tags[n] /\ First(tags[m]) < First(tags[n]))
       /\ (\A i \in 1..Len(title) : title[i] # "@") => tags = << >>

C21_Witness ==
  /\ fn.f = "extractTagsFromTitle" /\ fn.done
  /\ fn.args[1] = <<"@", "a", "@", "a">>
  /\ fn.out = << <<"a">> >>

\* mergeTags(explicitTags, titleTags)
mergeTagsNoStrip(explicit, extracted) == Unique(explicit \o extracted)

mergeTags(explicit, extracted) ==
  Unique([i \in 1..Len(explicit) |->
            IF explicit[i] # << >> /\ Head(explicit[i]) = "@"
            THEN Tail(explicit[i]) ELSE explicit[i]] \o extracted)

\* the longest tag list
MaxTags == 2

CallMergeTags ==
  /\ fn.f = "mergeTags" /\ ~fn.done
  /\ FnReturn(mergeTags(fn.args[1], fn.args[2]))
  /\ UNCHANGED <<ServerVars, proc>>

\* C22: mergeTags returns the explicit tags, each without its leading @, in
\* their given order, then the extracted tags that are not among them, in
\* their order, and no tag twice.
C22_MergedTags ==
  (fn.f = "mergeTags" /\ fn.done) =>
    LET explicit == [i \in 1..Len(fn.args[1]) |->
                       SubSeq(fn.args[1][i],
                              IF fn.args[1][i][1] = "@" THEN 2 ELSE 1,
                              Len(fn.args[1][i]))]
        extracted == fn.args[2]
        out == fn.out
        In(t, list) == \E i \in 1..Len(list) : list[i] = t
        Pos(t, list) == CHOOSE i \in 1..Len(list) :
                          list[i] = t /\ \A k \in 1..(i - 1) : list[k] # t
    IN /\ \A m, n \in 1..Len(out) : out[m] = out[n] => m = n
       /\ \A n \in 1..Len(out) : In(out[n], explicit) \/ In(out[n], extracted)
       /\ \A i \in 1..Len(explicit) : In(explicit[i], out)
       /\ \A i \in 1..Len(extracted) : In(extracted[i], out)
       /\ \A m, n \in 1..Len(out) :
            m < n =>
              /\ In(out[n], explicit) =>
                   /\ In(out[m], explicit)
                   /\ Pos(out[m], explicit) < Pos(out[n], explicit)
              /\ (~In(out[m], explicit) /\ ~In(out[n], explicit)) =>
                   Pos(out[m], extracted) < Pos(out[n], extracted)
       /\ (\A i, j \in 1..Len(explicit) : explicit[i] = explicit[j] => i = j)
            => SubSeq(out, 1, Len(explicit)) = explicit

C22_Witness ==
  /\ fn.f = "mergeTags" /\ fn.done
  /\ fn.args = << << <<"@", "a">>, <<"b">> >>, << <<"c">>, <<"a">> >> >>
  /\ fn.out = << <<"a">>, <<"b">>, <<"c">> >>

\* ------------------------------------------------------- the query string
\* the forEach body of makeRequest: what it appends under one key
appendedValues(value) ==
  IF value.t \in {"undefined", "null"} THEN << >>
  ELSE IF value.t = "array"
       THEN [i \in 1..Len(value.v) |-> ToJsString(value.v[i])]
  ELSE <<ToJsString(value)>>

\* url.searchParams after makeRequest(path, params): getAll(name) by name
searchParams(params) == [k \in DOMAIN params |-> appendedValues(params[k])]

\* the params a tool operation hands to makeRequest
toolParams(tool, filters) ==
  CASE tool \in {"getTests", "searchTests"} -> buildSearchParams(filters)
    [] tool = "searchSuites" ->
         buildSearchParams(JsObj(
           IF \E i \in 1..Len(filters.v) : filters.v[i][1] = Name.filter
           THEN [i \in 1..Len(filters.v) |->
                   IF filters.v[i][1] = Name.filter
                   THEN <<Name.filter, JsBool(TRUE)>> ELSE filters.v[i]]
           ELSE Append(filters.v, <<Name.filter, JsBool(TRUE)>>)))
    [] tool = "getPlans" ->
         [k \in {Join(filters.v[i][1]) : i \in 1..Len(filters.v)} |->
            (CHOOSE e \in {filters.v[i] : i \in 1..Len(filters.v)} :
               Join(e[1]) = k)[2]]

CallSearchParams ==
  /\ fn.f = "searchParams" /\ ~fn.done
  /\ FnReturn(searchParams(toolParams(fn.args[1], fn.args[2])))
  /\ UNCHANGED <<ServerVars, proc>>

\* C26: for get_tests, search_tests, search_suites and get_plans, the elements
\* of an array filter k are the query entries named k[], one per element, in
\* their order with duplicates kept, and no entry is named k.
C26_ArrayQueryEntries ==
  (fn.f = "searchParams" /\ fn.done) =>
    \A i \in 1..Len(fn.args[2].v) :
      LET k == fn.args[2].v[i][1]
          value == fn.args[2].v[i][2]
      IN (value.t = "array" /\ value.v # << >> /\ k # Name.filter) =>
           /\ (Join(k) \o "[]") \in DOMAIN fn.out
           /\ fn.out[Join(k) \o "[]"] =
                [j \in 1..Len(value.v) |-> ToJsString(value.v[j])]
           /\ Join(k) \notin DOMAIN fn.out

\* ------------------------------------------------ the attribute of a field
\* the most attributes of a resource whose fields are looked up
MaxAttrs == 2

\* C27: the element of a requested field holds the attribute stored under the
\* literal name when there is one, and otherwise the attribute stored under
\* the name with every underscore turned into a hyphen, or every hyphen into
\* an underscore, whichever way the request was written.
C27_BothNames ==
  (fn.f = "formatModel" /\ fn.done) =>
    LET lines == Split(fn.out.v, "\n")
        fields == fn.args[3].v
        attributes == JsOr(Get(fn.args[1], Name.attributes), JsObj(<< >>))
    IN \A i \in 1..Len(fields) :
         LET field == fields[i]
             counterpart ==
               IF \E j \in 1..Len(field) : field[j] = "-"
               THEN ReplaceAll(field, <<"-">>, <<"_">>)
               ELSE ReplaceAll(field, <<"_">>, <<"-">>)
             value == IF Get(attributes, field).t # "undefined"
                      THEN Get(attributes, field)
                      ELSE Get(attributes, counterpart)
         IN value.t \in {"string", "number", "boolean", "undefined"} =>
              lines[i + 2] = <<"  ", OpenTag(xmlFieldName(field))>>
                               \o formatValue(value, field)
                               \o <<CloseTag(xmlFieldName(field))>>

\* C28: the element of a requested field is empty when the attribute is null
\* or absent, and holds String(value) when the attribute is a number or a
\* boolean, 0 and false included, whether or not the name has underscores
\* (the field test, which has a line format of its own, left aside).
C28_ScalarElements ==
  (fn.f = "formatModel" /\ fn.done) =>
    LET lines == Split(fn.out.v, "\n")
        fields == fn.args[3].v
        attributes == JsOr(Get(fn.args[1], Name.attributes), JsObj(<< >>))
    IN \A i \in 1..Len(fields) :
         LET field == fields[i]
             value == Get(attributes, field)
             absent == \A k \in {field, ReplaceAll(field, <<"_">>, <<"-">>),
                                 ReplaceAll(field, <<"-">>, <<"_">>),
                                 ReplaceFirst(field, "_", "-")} :
                         Get(attributes, k).t = "undefined"
         IN /\ ((value.t = "null" \/ absent) /\ field # Name.test) =>
                 lines[i + 2] = <<"  ", OpenTag(xmlFieldName(field)),
                                  CloseTag(xmlFieldName(field))>>
            /\ value.t \in {"number", "boolean"} =>
                 lines[i + 2] = <<"  ", OpenTag(xmlFieldName(field))>>
                                  \o ToJsString(value)
                                  \o <<CloseTag(xmlFieldName(field))>>

\* ------------------------------------------- the helpers, one call each
InitFn ==
  /\ Constructed
  /\ concurrent = FALSE
  /\ proc = [pc |-> "off"]
  /\ \/ fn \in EscapeXmlCalls
     \/ fn \in FormatModelCalls
     \/ fn \in FormatValueCalls
     \/ fn \in SearchCalls
     \/ fn \in ConstructorCalls
     \/ fn \in {FnCall("buildSearchParams", <<o>>) : o \in FiltersObjects}
     \/ fn \in {FnCall("searchParams", <<f, o>>) :
                  f \in {"getTests", "searchTests", "searchSuites",
                         "getPlans"},
                  o \in FiltersObjects}
     \/ LET names == {<<"a">>, <<"a", "_", "b">>, <<"a", "-", "b">>,
                      <<"a", "_", "b", "_", "c">>, <<"a", "-", "b", "-", "c">>}
            values == {JsStr(<<"x">>), JsNum(0), JsNum(5), JsBool(FALSE),
                       JsNull}
        IN fn \in {FnCall("formatModel",
                          <<JsObj(<< <<Name.id, JsStr(<<"7">>)>>,
                                     <<Name.attributes, JsObj(a)>> >>),
                            JsStr(Name.suite), JsArr(<<f>>)>>) :
                     a \in {x \in SeqsUpTo(names \X values, MaxAttrs) :
                              \A i, j \in 1..Len(x) :
                                x[i][1] = x[j][1] => i = j},
                     f \in names}
     \/ fn \in {FnCall("extractTagsFromTitle", <<t>>) :
                  t \in SeqsUpTo(WordChars \cup {"@", " "}, MaxTitle)}
     \/ fn \in {FnCall("mergeTags", <<e, x>>) :
                  e \in SeqsUpTo({<<"a">>, <<"@", "a">>, <<"b">>, <<"@", "b">>},
                                 MaxTags),
                  x \in SeqsUpTo({<<"a">>, <<"b">>, <<"c">>}, MaxTags)}

NextFn ==
  \/ CallEscapeXml
  \/ CallFormatModel
  \/ CallFormatValue
  \/ CallSearchTests
  \/ CallSearchSuites
  \/ CallConstructor
  \/ CallBuildSearchParams
  \/ CallSearchParams
  \/ CallExtractTagsFromTitle
  \/ CallMergeTags

SpecFn == InitFn /\ [][NextFn]_vars
====
